---------------------------- MODULE Spec2Model ----------------------------
(***************************************************************************)
(* A model of app.py of dcf-tool: the statement extractor (parse_table),   *)
(* the "latest value" policy (latest_value), the input derivation          *)
(* (build_dcf_inputs), the FCFF projection (run_dcf) and the ticker cache  *)
(* of get_financials.                                                      *)
(*                                                                         *)
(* Conventions.                                                            *)
(*  - A Python dict is a sequence of <<key, value>> pairs with pairwise    *)
(*    distinct keys, in insertion order.                                   *)
(*  - A non-integral number is an exact rational <<n, d>>, d > 0, in       *)
(*    lowest terms; float rounding error is not modelled, float exceptions *)
(*    (ZeroDivisionError) are.                                             *)
(*  - A text is a sequence of tokens; a token is one character (" ", ",",  *)
(*    "-", a digit) or a chunk of letters standing for itself.             *)
(***************************************************************************)
EXTENDS Integers, Sequences, FiniteSets, TLC

VARIABLES pc, arg, res, financials_cache, clock, reqs

vars == <<pc, arg, res, financials_cache, clock, reqs>>

-----------------------------------------------------------------------------
(* Python dict, insertion ordered *)

Min(a, b) == IF a <= b THEN a ELSE b

DictKeys(d) == [i \in 1..Len(d) |-> d[i][1]]

DictValues(d) == [i \in 1..Len(d) |-> d[i][2]]

DictHas(d, k) == \E i \in 1..Len(d) : d[i][1] = k

DictGet(d, k, default) ==
    IF DictHas(d, k)
    THEN d[CHOOSE i \in 1..Len(d) : d[i][1] = k][2]
    ELSE default

\* d[k] = v : an existing key keeps its position, a new key is appended
DictSet(d, k, v) ==
    IF DictHas(d, k)
    THEN [i \in 1..Len(d) |-> IF d[i][1] = k THEN <<k, v>> ELSE d[i]]
    ELSE Append(d, <<k, v>>)

RECURSIVE ZipFrom(_, _, _, _)
ZipFrom(d, ks, vs, i) ==
    IF i > Min(Len(ks), Len(vs)) THEN d
    ELSE ZipFrom(DictSet(d, ks[i], vs[i]), ks, vs, i + 1)

\* dict(zip(ks, vs))
DictZip(ks, vs) == ZipFrom(<<>>, ks, vs, 1)

IsDict(d) == \A i, j \in 1..Len(d) : d[i][1] = d[j][1] => i = j

-----------------------------------------------------------------------------
(* latest_value *)

latest_value_last(row) ==
    IF row = <<>> THEN 0
    ELSE DictValues(row)[Len(row)]

latest_value(row) ==
    IF row = <<>> THEN 0
    ELSE IF DictHas(row, "TTM") THEN DictGet(row, "TTM", 0)
    ELSE DictValues(row)[Len(row)]

-----------------------------------------------------------------------------
(* Specification SpecLatest: latest_value applied to a bounded series *)

MaxPeriods == 3

PeriodLabels == {"Mar 2022", "Mar 2023", "TTM"}

SeriesValues == {0, 4, 9}

SeriesOfLen(n) ==
    {s \in [1..n -> PeriodLabels \X SeriesValues] : IsDict(s)}

AllSeries == UNION {SeriesOfLen(n) : n \in 0..MaxPeriods}

NoCache == <<>>

Idle ==
    /\ financials_cache = NoCache
    /\ clock = 0
    /\ reqs = <<>>

InitLatest ==
    /\ pc = "start"
    /\ arg \in AllSeries
    /\ res = 0
    /\ Idle

CallLatest ==
    /\ pc = "start"
    /\ res' = latest_value(arg)
    /\ pc' = "done"
    /\ UNCHANGED <<arg, financials_cache, clock, reqs>>

SpecLatest == InitLatest /\ [][CallLatest]_vars

\* C1: latest_value returns 0 for the empty series, the value keyed "TTM"
\* whenever "TTM" is a key (at any position), and otherwise the value of
\* the last period in insertion order.
C1_LatestValue ==
    pc = "done" =>
        /\ Len(arg) = 0 => res = 0
        /\ \A i \in 1..Len(arg) : arg[i][1] = "TTM" => res = arg[i][2]
        /\ (Len(arg) > 0 /\ \A i \in 1..Len(arg) : arg[i][1] # "TTM")
              => res = arg[Len(arg)][2]

C1_Witness ==
    /\ pc = "done"
    /\ Len(arg) >= 2
    /\ arg[1][1] = "TTM"
    /\ arg[1][2] # arg[Len(arg)][2]
    /\ res = arg[1][2]

-----------------------------------------------------------------------------
(* Cell text: str.strip, str.replace(",", ""), float *)

Whitespace == {" "}

Digits == {"0", "1", "2", "3", "4", "5", "6", "7", "8", "9"}

DigitVal(c) ==
    CASE c = "0" -> 0 [] c = "1" -> 1 [] c = "2" -> 2 [] c = "3" -> 3
      [] c = "4" -> 4 [] c = "5" -> 5 [] c = "6" -> 6 [] c = "7" -> 7
      [] c = "8" -> 8 [] c = "9" -> 9

RECURSIVE LStrip(_)
LStrip(t) ==
    IF t # <<>> /\ Head(t) \in Whitespace THEN LStrip(Tail(t)) ELSE t

RECURSIVE RStrip(_)
RStrip(t) ==
    IF t # <<>> /\ t[Len(t)] \in Whitespace
    THEN RStrip(SubSeq(t, 1, Len(t) - 1))
    ELSE t

\* text.strip()
Strip(t) == RStrip(LStrip(t))

\* text.replace(",", "")
RemoveCommas(t) == SelectSeq(t, LAMBDA c : c # ",")

\* the Python str a token sequence stands for
RECURSIVE Str(_)
Str(t) == IF t = <<>> THEN "" ELSE Head(t) \o Str(Tail(t))

RECURSIVE DigitsVal(_, _)
DigitsVal(t, acc) ==
    IF t = <<>> THEN acc ELSE DigitsVal(Tail(t), 10 * acc + DigitVal(Head(t)))

\* float(t): surrounding whitespace is ignored, then an optional sign and
\* at least one digit; anything else raises ValueError (ok = FALSE).
PyFloat(t) ==
    LET s == Strip(t)
        signed == s # <<>> /\ Head(s) \in {"-", "+"}
        body == IF signed THEN Tail(s) ELSE s
        ok == body # <<>> /\ \A i \in 1..Len(body) : body[i] \in Digits
    IN  IF ok
        THEN [ok |-> TRUE,
              val |-> IF signed /\ Head(s) = "-"
                      THEN 0 - DigitsVal(body, 0) ELSE DigitsVal(body, 0)]
        ELSE [ok |-> FALSE, val |-> 0]

CellValue_raw(text) ==
    LET f == PyFloat(Strip(text)) IN IF f.ok THEN f.val ELSE 0

\* lines 75-79: one value cell
CellValue(text) ==
    LET f == PyFloat(RemoveCommas(Strip(text))) IN IF f.ok THEN f.val ELSE 0

-----------------------------------------------------------------------------
(* parse_table *)

\* A soup maps each section id to what soup.find returns for it: a section
\* of kind "absent" (None), "notable" (a section without a table) or
\* "table", with the rows of its first table; a row is a sequence of cells
\* [tag, text].

FindAll(row, tags) == SelectSeq(row, LAMBDA c : c.tag \in tags)

\* lines 59, 63
HeaderCells(rows) == FindAll(rows[1], {"th"})

Headers(rows) ==
    LET hs == HeaderCells(rows)
    IN  Tail([i \in 1..Len(hs) |-> Str(Strip(hs[i].text))])

\* lines 71-81, for one row of at least 2 cells
RowKey(cells) == Str(Strip(cells[1].text))

RowValues(cells) ==
    LET cs == Tail(cells) IN [i \in 1..Len(cs) |-> CellValue(cs[i].text)]

RowSeries(headers, cells) == DictZip(headers, RowValues(cells))

StoreRow_first(data, headers, cells) ==
    IF DictHas(data, RowKey(cells)) THEN data
    ELSE DictSet(data, RowKey(cells), RowSeries(headers, cells))

\* line 81
StoreRow(data, headers, cells) ==
    DictSet(data, RowKey(cells), RowSeries(headers, cells))

RECURSIVE ParseRows(_, _, _, _)
ParseRows(data, headers, rows, i) ==
    IF i > Len(rows) THEN data
    ELSE LET cells == FindAll(rows[i], {"td", "th"})
         IN  IF Len(cells) < 2
             THEN ParseRows(data, headers, rows, i + 1)
             ELSE ParseRows(StoreRow(data, headers, cells), headers, rows, i + 1)

HeaderRejected_lax(rows) == Len(HeaderCells(rows)) < 1

\* line 60
HeaderRejected(rows) == Len(HeaderCells(rows)) < 2

parse_table(soup, section_id) ==
    LET section == soup[section_id]
    IN  IF section.kind = "absent" THEN <<>>
        ELSE IF section.kind = "notable" THEN <<>>
        ELSE IF Len(section.rows) < 2 THEN <<>>
        ELSE IF HeaderRejected(section.rows) THEN <<>>
        ELSE ParseRows(<<>>, Headers(section.rows), section.rows, 2)

-----------------------------------------------------------------------------
(* Specification SpecParse: parse_table applied to a bounded document *)

MaxRows == 3

MaxCells == 3

SectionIds == {"profit-loss", "balance-sheet", "cash-flow"}

Tags == {"th", "td"}

PeriodTexts == {<<"TTM">>, <<" ", "Mar 2023", " ">>}

LabelTexts == {<<"Sales +">>, <<" ", "Sales +", " ">>, <<"Depreciation">>}

NumText == <<" ", "-", "1", ",", "2", "0">>

BadText == <<"n/a">>

ValueTexts == {NumText, BadText}

HeaderRows ==
    UNION {{r \in [1..n -> [tag : Tags, text : PeriodTexts \cup {<<>>}]] :
                \A i \in 1..n : (i = 1) <=> (r[i].text = <<>>)} : n \in 0..MaxCells}

DataRows ==
    UNION {{r \in [1..n -> [tag : {"td"}, text : LabelTexts \cup ValueTexts]] :
                \A i \in 1..n : (i = 1) <=> (r[i].text \in LabelTexts)} : n \in 0..MaxCells}

TableRows ==
    UNION {{t \in [1..n -> HeaderRows \cup DataRows] :
                \A i \in 1..n : IF i = 1 THEN t[i] \in HeaderRows
                                ELSE t[i] \in DataRows} : n \in 0..MaxRows}

Absent == [kind |-> "absent", rows |-> <<>>]

NoTable == [kind |-> "notable", rows |-> <<>>]

Sections == {Absent, NoTable} \cup {[kind |-> "table", rows |-> t] : t \in TableRows}

SoupOf(sec) == [s \in SectionIds |-> IF s = "profit-loss" THEN sec ELSE Absent]

InitParse ==
    /\ pc = "start"
    /\ \E sec \in Sections :
          arg = [soup |-> SoupOf(sec), section_id |-> "profit-loss"]
    /\ res = <<>>
    /\ Idle

CallParse ==
    /\ pc = "start"
    /\ res' = parse_table(arg.soup, arg.section_id)
    /\ pc' = "done"
    /\ UNCHANGED <<arg, financials_cache, clock, reqs>>

SpecParse == InitParse /\ [][CallParse]_vars

(* What the texts of the bounded document stand for, written out *)

ExpectedLabel(text) ==
    CASE text = <<"TTM">> -> "TTM"
      [] text = <<" ", "Mar 2023", " ">> -> "Mar 2023"
      [] text = <<"Sales +">> -> "Sales +"
      [] text = <<" ", "Sales +", " ">> -> "Sales +"
      [] text = <<"Depreciation">> -> "Depreciation"
      [] text = <<>> -> ""

ExpectedValue(text) ==
    CASE text = NumText -> 0 - 120
      [] text = BadText -> 0

TheSection == arg.soup[arg.section_id]

TheRows == TheSection.rows

ThCells(row) == SelectSeq(row, LAMBDA c : c.tag = "th")

Rejected ==
    \/ TheSection.kind # "table"
    \/ Len(TheRows) < 2
    \/ Len(ThCells(TheRows[1])) < 2

\* the data rows parse_table stores: those with at least 2 cells
StoredRows == {r \in 2..Len(TheRows) : Len(TheRows[r]) >= 2}

KeyOf(r) == ExpectedLabel(TheRows[r][1].text)

IsLastOfKey(r) == \A q \in StoredRows : KeyOf(q) = KeyOf(r) => q <= r

ValuesOf(r) ==
    [k \in 1..(Len(TheRows[r]) - 1) |-> ExpectedValue(TheRows[r][k + 1].text)]

\* period labels as the claim words them: the header row's cells after the first
LabelsOfCells ==
    [k \in 1..(Len(TheRows[1]) - 1) |-> ExpectedLabel(TheRows[1][k + 1].text)]

\* period labels as the th cells after the first th cell
LabelsOfTh ==
    LET hs == ThCells(TheRows[1])
    IN  [k \in 1..(Len(hs) - 1) |-> ExpectedLabel(hs[k + 1].text)]

Paired(labels, vals) ==
    [k \in 1..Min(Len(labels), Len(vals)) |-> <<labels[k], vals[k]>>]

FirstAt(labels, m, key) == CHOOSE k \in 1..m : labels[k] = key /\ \A j \in 1..(k - 1) : labels[j] # key

\* C2 as stated: for every data row with at least 2 cells in a table that
\* is not rejected, the row's series is exactly the k-th period label (header
\* row's cells after the first) paired with the parsed value of the row's
\* k-th value cell, k = 1 .. the shorter length; unparsable cells give 0.
C2_Original ==
    (pc = "done" /\ ~Rejected) =>
        \A r \in StoredRows :
            /\ RowSeries(Headers(TheRows), TheRows[r]) = Paired(LabelsOfCells, ValuesOf(r))
            /\ IsLastOfKey(r) => DictGet(res, KeyOf(r), <<>>) = Paired(LabelsOfCells, ValuesOf(r))

\* C2 (amended): with the period labels being the trimmed texts of the
\* header row's th cells after the first th cell and m the shorter of the
\* label count and the row's value-cell count, the series of a data row with
\* at least 2 cells (the entry stored for it when no later row has its label)
\* is the k-th label paired with the parsed k-th value cell for k = 1..m when
\* the first m labels are pairwise distinct; in general it has one entry per
\* distinct label among the first m, in order of first occurrence, holding
\* the value of the last cell paired with that label, and no other entry;
\* a cell that fails numeric parsing contributes 0.
C2_RowSeries ==
    (pc = "done" /\ ~Rejected) =>
        \A r \in StoredRows :
            LET S == RowSeries(Headers(TheRows), TheRows[r])
                labels == LabelsOfTh
                vals == ValuesOf(r)
                m == Min(Len(labels), Len(vals))
            IN  /\ IsLastOfKey(r) => DictGet(res, KeyOf(r), <<"none">>) = S
                /\ (\A j, k \in 1..m : labels[j] = labels[k] => j = k)
                      => S = Paired(labels, vals)
                /\ IsDict(S)
                /\ {S[i][1] : i \in 1..Len(S)} = {labels[k] : k \in 1..m}
                /\ \A k \in 1..m :
                      (\A j \in (k + 1)..m : labels[j] # labels[k])
                          => DictGet(S, labels[k], "none") = vals[k]
                /\ \A i, j \in 1..Len(S) :
                      i < j => FirstAt(labels, m, S[i][1]) < FirstAt(labels, m, S[j][1])

\* a row with more value cells than labels, a parsed and an unparsable cell
C2_Witness ==
    /\ pc = "done"
    /\ ~Rejected
    /\ \E r \in StoredRows :
          /\ IsLastOfKey(r)
          /\ Len(LabelsOfTh) = 1
          /\ Len(TheRows[r]) = 3
          /\ TheRows[r][2].text = NumText
          /\ DictGet(res, KeyOf(r), <<>>) = <<<<LabelsOfTh[1], 0 - 120>>>>
    /\ \E r \in StoredRows :
          /\ IsLastOfKey(r)
          /\ TheRows[r][2].text = BadText
          /\ DictGet(res, KeyOf(r), <<>>) = <<<<LabelsOfTh[1], 0>>>>

\* C5: parse_table returns the empty table whenever the section is absent,
\* the section has no table, the table has fewer than 2 rows or the header
\* row has fewer than 2 cells; a non-empty result (a table with period
\* columns) occurs only when none of these holds.
C5_EmptyWhenRejected ==
    pc = "done" =>
        LET bad == \/ TheSection.kind = "absent"
                   \/ TheSection.kind = "notable"
                   \/ Len(TheRows) < 2
                   \/ Len(TheRows[1]) < 2
        IN  /\ bad => res = <<>>
            /\ (\E i \in 1..Len(res) : res[i][2] # <<>>) => ~bad

\* a header row of one cell above a data row of 2 cells: rejected
C5_Witness ==
    /\ pc = "done"
    /\ TheSection.kind = "table"
    /\ Len(TheRows) >= 2
    /\ Len(TheRows[1]) = 1
    /\ TheRows[1][1].tag = "th"
    /\ StoredRows # {}
    /\ res = <<>>

\* C9 as stated: the result has exactly one entry per distinct trimmed label
\* among the data rows with at least 2 cells, holding the series of the last
\* such row with that label.
C9_Original ==
    pc = "done" =>
        /\ IsDict(res)
        /\ {res[i][1] : i \in 1..Len(res)} = {KeyOf(r) : r \in StoredRows}
        /\ \A r \in StoredRows :
              IsLastOfKey(r) =>
                  DictGet(res, KeyOf(r), <<"none">>) = RowSeries(Headers(TheRows), TheRows[r])

\* C9 (amended): for a table that is not rejected, the result has exactly
\* one entry per distinct trimmed label among the data rows with at least 2
\* cells, holding the series of the last such row with that label and
\* nothing of the earlier ones.
C9_LastWins ==
    (pc = "done" /\ ~Rejected) =>
        /\ IsDict(res)
        /\ {res[i][1] : i \in 1..Len(res)} = {KeyOf(r) : r \in StoredRows}
        /\ \A r \in StoredRows :
              IsLastOfKey(r) =>
                  DictGet(res, KeyOf(r), <<"none">>) = RowSeries(Headers(TheRows), TheRows[r])

\* two rows whose labels differ only in surrounding blanks, different series
C9_Witness ==
    /\ pc = "done"
    /\ ~Rejected
    /\ \E q, r \in StoredRows :
          /\ q < r
          /\ TheRows[q][1].text # TheRows[r][1].text
          /\ KeyOf(q) = KeyOf(r)
          /\ IsLastOfKey(r)
          /\ RowSeries(Headers(TheRows), TheRows[q]) # RowSeries(Headers(TheRows), TheRows[r])
          /\ Len(res) = 1
          /\ res[1] = <<"Sales +", RowSeries(Headers(TheRows), TheRows[r])>>

-----------------------------------------------------------------------------
(* Numbers: exact rationals <<n, d>> with d > 0, in lowest terms *)

Abs(n) == IF n < 0 THEN 0 - n ELSE n

RECURSIVE Gcd(_, _)
Gcd(a, b) == IF b = 0 THEN a ELSE Gcd(b, a % b)

Norm(n, d) ==
    LET g == Gcd(Abs(n), Abs(d))
        sg == IF d < 0 THEN 0 - 1 ELSE 1
    IN  <<(sg * n) \div g, (sg * d) \div g>>

Rat(n) == <<n, 1>>

Frac(n, d) == Norm(n, d)

Lcm(a, b) == (a \div Gcd(a, b)) * b

RAdd(x, y) ==
    LET l == Lcm(x[2], y[2])
    IN  Norm(x[1] * (l \div x[2]) + y[1] * (l \div y[2]), l)

RNeg(x) == <<0 - x[1], x[2]>>

RSub(x, y) == RAdd(x, RNeg(y))

RMul(x, y) ==
    LET a == Norm(x[1], y[2])
        b == Norm(y[1], x[2])
    IN  Norm(a[1] * b[1], a[2] * b[2])

\* x / y for y # 0
RQuot(x, y) == RMul(x, Norm(y[2], y[1]))

RLess(x, y) == RSub(x, y)[1] < 0

RECURSIVE RPow(_, _)
RPow(x, k) == IF k = 0 THEN Rat(1) ELSE RMul(x, RPow(x, k - 1))

RECURSIVE Pow10(_)
Pow10(k) == IF k = 0 THEN 1 ELSE 10 * Pow10(k - 1)

\* long division: quotient and remainder of n * 10^k by d, given those of n
RECURSIVE Shift(_, _, _, _)
Shift(q, r, d, k) ==
    IF k = 0 THEN <<q, r>>
    ELSE Shift(10 * q + ((10 * r) \div d), (10 * r) % d, d, k - 1)

\* round(x, places): to the nearest multiple of 10^-places, ties to even
Round(x, places) ==
    LET qr == Shift(x[1] \div x[2], x[1] % x[2], x[2], places)
        q == qr[1]
        r == qr[2]
        up == \/ 2 * r > x[2]
              \/ 2 * r = x[2] /\ q % 2 = 1
    IN  Norm(IF up THEN q + 1 ELSE q, Pow10(places))

\* outcome of an expression that may raise
Ok(v) == [err |-> "none", val |-> v]

Raise(e) == [err |-> e, val |-> Rat(0)]

\* x / y : ZeroDivisionError when y = 0
PyDiv(x, y) == IF y[1] = 0 THEN Raise("ZeroDivisionError") ELSE Ok(RQuot(x, y))

-----------------------------------------------------------------------------
(* build_dcf_inputs *)

\* line 103
TaxRate_unguarded(pbt, pat) ==
    IF pbt >= 0 THEN PyDiv(Rat(pbt - pat), Rat(pbt)) ELSE Ok(Frac(1, 4))

TaxRate(pbt, pat) ==
    IF pbt > 0 THEN PyDiv(Rat(pbt - pat), Rat(pbt)) ELSE Ok(Frac(1, 4))

\* lines 106-112
Capex(fa, depreciation) ==
    LET years == DictKeys(fa)
    IN  IF Len(years) >= 2
        THEN DictGet(fa, years[Len(years)], 0) - DictGet(fa, years[Len(years) - 1], 0)
                + depreciation
        ELSE depreciation

\* lines 114, 127, 137: x / revenue if revenue else 0
PerRevenue(x, revenue) ==
    IF revenue # 0 THEN PyDiv(Rat(x), Rat(revenue)) ELSE Ok(Rat(0))

\* lines 116-129
NwcPct(oa, ol, revenue) ==
    LET oa_years == DictKeys(oa)
        ol_years == DictKeys(ol)
    IN  IF Len(oa_years) >= 2 /\ Len(ol_years) >= 2
        THEN LET delta_nwc ==
                   (DictGet(oa, oa_years[Len(oa_years)], 0)
                       - DictGet(oa, oa_years[Len(oa_years) - 1], 0))
                   - (DictGet(ol, ol_years[Len(ol_years)], 0)
                       - DictGet(ol, ol_years[Len(ol_years) - 1], 0))
             IN  PerRevenue(delta_nwc, revenue)
        ELSE Ok(Rat(0))

build_dcf_inputs(pl, bs, cf) ==
    LET revenue == latest_value(DictGet(pl, "Sales +", <<>>))
        ebit == latest_value(DictGet(pl, "Operating Profit", <<>>))
        depreciation == latest_value(DictGet(pl, "Depreciation", <<>>))
        pbt == latest_value(DictGet(pl, "Profit before tax", <<>>))
        pat == latest_value(DictGet(pl, "Net Profit +", <<>>))
        tax_rate == TaxRate(pbt, pat)
        capex == Capex(DictGet(bs, "Fixed Assets +", <<>>), depreciation)
        capex_pct == PerRevenue(capex, revenue)
        nwc_pct == NwcPct(DictGet(bs, "Other Assets +", <<>>),
                          DictGet(bs, "Other Liabilities +", <<>>), revenue)
        borrowings == latest_value(DictGet(bs, "Borrowings +", <<>>))
        cash == latest_value(DictGet(bs, "Investments", <<>>))
        net_debt == borrowings - cash
        ebit_margin == PerRevenue(ebit, revenue)
        raised == {o.err : o \in {tax_rate, capex_pct, nwc_pct, ebit_margin}} \ {"none"}
    IN  IF raised # {}
        THEN [err |-> CHOOSE e \in raised : TRUE]
        ELSE [err |-> "none",
              revenue |-> revenue,
              ebit_margin |-> Round(ebit_margin.val, 4),
              tax_rate |-> Round(tax_rate.val, 4),
              capex_pct |-> Round(capex_pct.val, 4),
              nwc_pct |-> Round(nwc_pct.val, 4),
              net_debt |-> net_debt]

-----------------------------------------------------------------------------
(* Specification SpecBuild: build_dcf_inputs applied to bounded statements *)

\* the period columns of a statement, in column order
StatementHeaders ==
    {<<"Mar 2022", "Mar 2023">>, <<"Mar 2023", "TTM">>, <<"TTM", "Mar 2023">>}

\* the value cells of each line item; <<>> leaves the item out
ItemValues ==
    [pl |-> << <<"Sales +", {<<>>, <<0, 0>>, <<50, 200>>}>>,
               <<"Operating Profit", {<<>>, <<10, 40>>}>>,
               <<"Depreciation", {<<>>, <<3, 7>>}>>,
               <<"Profit before tax", {<<>>, <<0 - 5, 0 - 8>>, <<20, 30>>}>>,
               <<"Net Profit +", {<<>>, <<15, 21>>}>> >>,
     bs |-> << <<"Fixed Assets +", {<<>>, <<60>>, <<60, 90>>}>>,
               <<"Other Assets +", {<<>>, <<7>>, <<10, 30>>}>>,
               <<"Other Liabilities +", {<<>>, <<5, 15>>}>>,
               <<"Borrowings +", {<<>>, <<80, 40>>}>>,
               <<"Investments", {<<>>, <<25, 10>>}>> >>]

RECURSIVE TableOf(_, _, _, _)
TableOf(data, headers, items, choice) ==
    IF items = <<>> THEN data
    ELSE LET key == Head(items)[1]
             vals == Head(choice)
         IN  TableOf(IF vals = <<>> THEN data
                     ELSE DictSet(data, key, DictZip(headers, vals)),
                     headers, Tail(items), Tail(choice))

Choices(items) ==
    {c \in [1..Len(items) -> UNION {items[i][2] : i \in 1..Len(items)}] :
        \A i \in 1..Len(items) : c[i] \in items[i][2]}

Statements(items) ==
    {TableOf(<<>>, h, items, c) : h \in StatementHeaders, c \in Choices(items)}

InitBuild ==
    /\ pc = "start"
    /\ \E pl \in Statements(ItemValues.pl), bs \in Statements(ItemValues.bs) :
          arg = [pl |-> pl, bs |-> bs, cf |-> <<>>]
    /\ res = <<>>
    /\ Idle

CallBuild ==
    /\ pc = "start"
    /\ res' = build_dcf_inputs(arg.pl, arg.bs, arg.cf)
    /\ pc' = "done"
    /\ UNCHANGED <<arg, financials_cache, clock, reqs>>

SpecBuild == InitBuild /\ [][CallBuild]_vars

Item(table, key) == DictGet(table, key, <<>>)

\* C3 as stated: with 2 or more "Fixed Assets +" periods, capex is the latest
\* fixed-assets figure, the one latest_value returns (the "TTM" value when
\* present), minus the figure of a prior period, plus depreciation; with 1
\* or 0 periods capex is depreciation; capex_pct is capex / revenue rounded
\* to 4 places.
C3_Original ==
    (pc = "done" /\ res.err = "none") =>
        LET fa == Item(arg.bs, "Fixed Assets +")
            n == Len(fa)
            dep == latest_value(Item(arg.pl, "Depreciation"))
            revenue == latest_value(Item(arg.pl, "Sales +"))
            isLatest(j) == IF DictHas(fa, "TTM") THEN fa[j][1] = "TTM" ELSE j = n
        IN  revenue # 0 =>
              /\ n >= 2 =>
                    \E j \in 1..n :
                        /\ ~isLatest(j)
                        /\ res.capex_pct =
                              Round(Frac(latest_value(fa) - fa[j][2] + dep, revenue), 4)
              /\ n < 2 => res.capex_pct = Round(Frac(dep, revenue), 4)

\* C6: build_dcf_inputs never raises (no division by zero); the returned
\* tax_rate is (pbt - pat) / pbt (to 4 places) when pbt > 0 and 0.25 when
\* pbt <= 0; ebit_margin, capex_pct and nwc_pct are 0 when revenue = 0;
\* nwc_pct is 0 when "Other Assets +" or "Other Liabilities +" has fewer
\* than 2 periods; all-empty statements give revenue = 0, net_debt = 0,
\* ebit_margin = 0, tax_rate = 0.25, capex_pct = 0, nwc_pct = 0.
C6_BuildTotal ==
    pc = "done" =>
        LET pbt == latest_value(Item(arg.pl, "Profit before tax"))
            pat == latest_value(Item(arg.pl, "Net Profit +"))
            revenue == latest_value(Item(arg.pl, "Sales +"))
        IN  /\ res.err = "none"
            /\ pbt > 0 => res.tax_rate = Round(Frac(pbt - pat, pbt), 4)
            /\ pbt <= 0 => res.tax_rate = <<1, 4>>
            /\ revenue = 0 =>
                  /\ res.ebit_margin = <<0, 1>>
                  /\ res.capex_pct = <<0, 1>>
                  /\ res.nwc_pct = <<0, 1>>
            /\ (\/ Len(Item(arg.bs, "Other Assets +")) < 2
                \/ Len(Item(arg.bs, "Other Liabilities +")) < 2)
                  => res.nwc_pct = <<0, 1>>
            /\ (arg.pl = <<>> /\ arg.bs = <<>> /\ arg.cf = <<>>) =>
                  res = [err |-> "none", revenue |-> 0, net_debt |-> 0,
                         ebit_margin |-> <<0, 1>>, tax_rate |-> <<1, 4>>,
                         capex_pct |-> <<0, 1>>, nwc_pct |-> <<0, 1>>]

\* pre-tax profit 0 and revenue 0 next to a non-zero operating profit
C6_Witness ==
    /\ pc = "done"
    /\ DictHas(arg.pl, "Sales +")
    /\ latest_value(Item(arg.pl, "Sales +")) = 0
    /\ latest_value(Item(arg.pl, "Operating Profit")) # 0
    /\ latest_value(Item(arg.pl, "Profit before tax")) = 0
    /\ latest_value(Item(arg.pl, "Net Profit +")) # 0
    /\ res.err = "none"
    /\ res.tax_rate = <<1, 4>>
    /\ res.ebit_margin = <<0, 1>>

-----------------------------------------------------------------------------
(* run_dcf *)

\* lines 214-218, for the revenue of one forecast year
Fcff(rev, p) ==
    LET ebit == RMul(rev, p.ebit_margin)
        nopat == RMul(ebit, RSub(Rat(1), p.tax_rate))
        capex == RMul(rev, p.capex_pct)
        nwc == RMul(rev, p.nwc_pct)
    IN  RSub(RSub(nopat, capex), nwc)

RECURSIVE FcffLoop_flat(_, _, _, _)
FcffLoop_flat(fcffs, rev, p, i) ==
    IF i > Len(p.growth) THEN fcffs
    ELSE FcffLoop_flat(Append(fcffs, Fcff(RMul(rev, RAdd(Rat(1), p.growth[i])), p)),
                       rev, p, i + 1)

\* lines 212-219
RECURSIVE FcffLoop(_, _, _, _)
FcffLoop(fcffs, rev, p, i) ==
    IF i > Len(p.growth) THEN fcffs
    ELSE LET rev2 == RMul(rev, RAdd(Rat(1), p.growth[i]))
         IN  FcffLoop(Append(fcffs, Fcff(rev2, p)), rev2, p, i + 1)

Fcffs(p) == FcffLoop(<<>>, p.revenue, p, 1)

TerminalValue_swapped(fcffs, p) ==
    IF fcffs = <<>> THEN Raise("IndexError")
    ELSE PyDiv(RMul(fcffs[Len(fcffs)], RAdd(Rat(1), p.terminal_growth)),
               RSub(p.terminal_growth, p.wacc))

\* line 221
TerminalValue(fcffs, p) ==
    IF fcffs = <<>> THEN Raise("IndexError")
    ELSE PyDiv(RMul(fcffs[Len(fcffs)], RAdd(Rat(1), p.terminal_growth)),
               RSub(p.wacc, p.terminal_growth))

\* lines 223-225
RECURSIVE EvLoop(_, _, _, _)
EvLoop(ev, fcffs, wacc, i) ==
    IF i > Len(fcffs) THEN Ok(ev)
    ELSE LET t == PyDiv(fcffs[i], RPow(RAdd(Rat(1), wacc), i))
         IN  IF t.err # "none" THEN t
             ELSE EvLoop(RAdd(ev, t.val), fcffs, wacc, i + 1)

\* lines 209-227: ev before rounding
EnterpriseValue(p) ==
    LET fcffs == Fcffs(p)
        tv == TerminalValue(fcffs, p)
    IN  IF tv.err # "none" THEN tv
        ELSE LET ev == EvLoop(Rat(0), fcffs, p.wacc, 1)
             IN  IF ev.err # "none" THEN ev
                 ELSE LET t == PyDiv(tv.val, RPow(RAdd(Rat(1), p.wacc), Len(fcffs)))
                      IN  IF t.err # "none" THEN t ELSE Ok(RAdd(ev.val, t.val))

FairValue_guarded(equity, shares) ==
    IF shares[1] = 0 THEN Ok(Rat(0)) ELSE PyDiv(equity, shares)

\* line 230
FairValue(equity, shares) == PyDiv(equity, shares)

run_dcf(p) ==
    LET ev == EnterpriseValue(p)
    IN  IF ev.err # "none" THEN [err |-> ev.err]
        ELSE LET equity == RSub(ev.val, p.net_debt)
                 fair_value == FairValue(equity, p.shares)
             IN  IF fair_value.err # "none" THEN [err |-> fair_value.err]
                 ELSE [err |-> "none",
                       enterprise_value |-> Round(ev.val, 2),
                       equity_value |-> Round(equity, 2),
                       fair_value_per_share |-> Round(fair_value.val, 2)]

-----------------------------------------------------------------------------
(* Specification SpecDcf: run_dcf applied to a bounded payload *)

MaxYears == 2

Rates == {Rat(0), Frac(1, 10), Rat(0 - 2)}

GrowthPaths == UNION {[1..n -> Rates] : n \in 0..MaxYears}

Payloads ==
    [revenue : {Rat(1), Rat(100)},
     growth : GrowthPaths,
     ebit_margin : {Frac(1, 100), Frac(1, 5)},
     tax_rate : {Frac(1, 4)},
     capex_pct : {Rat(0), Frac(1, 20)},
     nwc_pct : {Rat(0), Frac(1, 50)},
     wacc : {Rat(0 - 2), Rat(0 - 1), Rat(0), Frac(1, 10)},
     terminal_growth : {Rat(0 - 3), Rat(0), Frac(3, 100)},
     net_debt : {Rat(0), Rat(50)},
     shares : {Rat(0 - 10), Rat(0), Rat(100)}]

\* the worked example of the specification
ExamplePayload ==
    [revenue |-> Rat(1000), growth |-> <<Rat(0)>>, ebit_margin |-> Frac(1, 5),
     tax_rate |-> Frac(1, 4), capex_pct |-> Rat(0), nwc_pct |-> Rat(0),
     wacc |-> Frac(1, 10), terminal_growth |-> Frac(3, 100),
     net_debt |-> Rat(0), shares |-> Rat(100)]

InitDcf ==
    /\ pc = "start"
    /\ arg \in Payloads \cup {ExamplePayload}
    /\ res = <<>>
    /\ Idle

CallDcf ==
    /\ pc = "start"
    /\ res' = run_dcf(arg)
    /\ pc' = "done"
    /\ UNCHANGED <<arg, financials_cache, clock, reqs>>

SpecDcf == InitDcf /\ [][CallDcf]_vars

ResultFields == {"err", "enterprise_value", "equity_value", "fair_value_per_share"}

\* C4 as stated: for a non-empty growth path run_dcf never ends in a
\* failure; also with wacc <= terminal_growth or shares <= 0 it returns a
\* result record.
C4_Original ==
    (pc = "done" /\ Len(arg.growth) >= 1) => res.err = "none"

\* C4 (amended): for a non-empty growth path run_dcf returns a result record
\* with enterprise_value, equity_value and fair_value_per_share (possibly
\* degenerate) when wacc < terminal_growth or shares < 0, but ends in a
\* ZeroDivisionError exactly when wacc = terminal_growth, wacc = -1 or
\* shares = 0.
C4_RaisesOnZeroDivisor ==
    (pc = "done" /\ Len(arg.growth) >= 1) =>
        LET zero == \/ arg.wacc = arg.terminal_growth
                    \/ arg.wacc = Rat(0 - 1)
                    \/ arg.shares = Rat(0)
        IN  /\ zero => res = [err |-> "ZeroDivisionError"]
            /\ ~zero => res.err = "none" /\ DOMAIN res = ResultFields

\* wacc below terminal_growth and a negative share count: a record comes back
C4_Witness ==
    /\ pc = "done"
    /\ Len(arg.growth) >= 1
    /\ RLess(arg.wacc, arg.terminal_growth)
    /\ RLess(arg.shares, Rat(0))
    /\ res.err = "none"
    /\ RLess(res.enterprise_value, Rat(0))

(* The closed forms of the projection *)

RECURSIVE Compounded(_, _)
Compounded(p, i) ==
    IF i = 0 THEN p.revenue
    ELSE RMul(Compounded(p, i - 1), RAdd(Rat(1), p.growth[i]))

ClosedFcff(p, i) ==
    LET rev == Compounded(p, i)
    IN  RSub(RSub(RMul(RMul(rev, p.ebit_margin), RSub(Rat(1), p.tax_rate)),
                  RMul(rev, p.capex_pct)),
             RMul(rev, p.nwc_pct))

RECURSIVE Discounted(_, _)
Discounted(p, i) ==
    IF i = 0 THEN Rat(0)
    ELSE RAdd(Discounted(p, i - 1),
              RQuot(ClosedFcff(p, i), RPow(RAdd(Rat(1), p.wacc), i)))

\* for wacc # terminal_growth and wacc # -1
ClosedEv(p) ==
    LET n == Len(p.growth)
        tv == RQuot(RMul(ClosedFcff(p, n), RAdd(Rat(1), p.terminal_growth)),
                    RSub(p.wacc, p.terminal_growth))
    IN  RAdd(Discounted(p, n), RQuot(tv, RPow(RAdd(Rat(1), p.wacc), n)))

\* C7: for a growth path of N >= 1 rates run_dcf computes exactly N fcff
\* values, the i-th from the revenue compounded over the first i rates,
\* fcff_i = rev_i * ebit_margin * (1 - tax_rate) - rev_i * capex_pct
\* - rev_i * nwc_pct; when it returns, enterprise value = sum of
\* fcff_i / (1 + wacc)^i + tv / (1 + wacc)^N with tv = fcff_N * (1 +
\* terminal_growth) / (wacc - terminal_growth), equity value = enterprise
\* value - net_debt, fair value = equity value / shares, each rounded to 2
\* places; the worked example gives 2142.86, 2142.86 and 21.43.
C7_Projection ==
    (pc = "done" /\ Len(arg.growth) >= 1) =>
        /\ Len(Fcffs(arg)) = Len(arg.growth)
        /\ \A i \in 1..Len(arg.growth) : Fcffs(arg)[i] = ClosedFcff(arg, i)
        /\ res.err = "none" =>
              /\ res.enterprise_value = Round(ClosedEv(arg), 2)
              /\ res.equity_value = Round(RSub(ClosedEv(arg), arg.net_debt), 2)
              /\ res.fair_value_per_share =
                    Round(RQuot(RSub(ClosedEv(arg), arg.net_debt), arg.shares), 2)
        /\ arg = ExamplePayload =>
              res = [err |-> "none",
                     enterprise_value |-> Frac(214286, 100),
                     equity_value |-> Frac(214286, 100),
                     fair_value_per_share |-> Frac(2143, 100)]

\* two years of 10% growth: the second year compounds on the first
C7_Witness ==
    /\ pc = "done"
    /\ arg.growth = <<Frac(1, 10), Frac(1, 10)>>
    /\ arg.revenue = Rat(100)
    /\ arg.ebit_margin = Frac(1, 5)
    /\ arg.capex_pct = Rat(0)
    /\ arg.nwc_pct = Rat(0)
    /\ Fcffs(arg) = <<Frac(33, 2), Frac(363, 20)>>
    /\ res.err = "none"

WithRate(p, i, g) == [p EXCEPT !.growth[i] = g]

\* revenue > 0, wacc > terminal_growth, ebit_margin * (1 - tax_rate) >
\* capex_pct + nwc_pct
MonotonePre(p) ==
    /\ RLess(Rat(0), p.revenue)
    /\ RLess(p.terminal_growth, p.wacc)
    /\ RLess(RAdd(p.capex_pct, p.nwc_pct),
             RMul(p.ebit_margin, RSub(Rat(1), p.tax_rate)))

\* C8 as stated: under MonotonePre, increasing any single rate of the
\* growth path strictly increases the returned enterprise_value.
C8_Original ==
    (pc = "done" /\ res.err = "none" /\ MonotonePre(arg)) =>
        \A i \in 1..Len(arg.growth) : \A g \in Rates :
            RLess(arg.growth[i], g) =>
                RLess(res.enterprise_value, run_dcf(WithRate(arg, i, g)).enterprise_value)

\* C8 (amended): under MonotonePre and with, in addition, wacc > -1 and
\* every other growth rate > -1, increasing a single rate of the growth
\* path strictly increases the enterprise value before rounding and never
\* decreases the returned enterprise_value (rounded to 2 places, it can stay
\* equal).
C8_Monotone ==
    (pc = "done" /\ res.err = "none" /\ MonotonePre(arg) /\ RLess(Rat(0 - 1), arg.wacc)) =>
        \A i \in 1..Len(arg.growth) : \A g \in Rates :
            (/\ RLess(arg.growth[i], g)
             /\ \A j \in 1..Len(arg.growth) : j # i => RLess(Rat(0 - 1), arg.growth[j]))
                => /\ RLess(EnterpriseValue(arg).val, EnterpriseValue(WithRate(arg, i, g)).val)
                   /\ ~RLess(run_dcf(WithRate(arg, i, g)).enterprise_value, res.enterprise_value)

\* a path whose first rate can rise from 0 to 10% with the rounded value unchanged
C8_Witness ==
    /\ pc = "done"
    /\ res.err = "none"
    /\ MonotonePre(arg)
    /\ RLess(Rat(0 - 1), arg.wacc)
    /\ arg.growth = <<Rat(0)>>
    /\ RLess(EnterpriseValue(arg).val, EnterpriseValue(WithRate(arg, 1, Frac(1, 10))).val)
    /\ run_dcf(WithRate(arg, 1, Frac(1, 10))).enterprise_value = res.enterprise_value

-----------------------------------------------------------------------------
(* get_financials and financials_cache *)

CACHE_TTL == 6 * 60 * 60

\* ticker.upper(), on the tickers requested
Upper(ticker) ==
    CASE ticker = "tcs" -> "TCS"
      [] ticker = "TCS" -> "TCS"
      [] ticker = "infy" -> "INFY"

CacheValid_lax(cache, ticker, now) ==
    /\ DictHas(cache, ticker)
    /\ now - DictGet(cache, ticker, <<>>).timestamp <= CACHE_TTL

\* lines 157-159
CacheValid(cache, ticker, now) ==
    /\ DictHas(cache, ticker)
    /\ now - DictGet(cache, ticker, <<>>).timestamp < CACHE_TTL

\* lines 167-177
Financials(soup) ==
    [profit_loss |-> parse_table(soup, "profit-loss"),
     balance_sheet |-> parse_table(soup, "balance-sheet"),
     cash_flow |-> parse_table(soup, "cash-flow")]

NoData == [profit_loss |-> <<>>, balance_sheet |-> <<>>, cash_flow |-> <<>>]

\* A worker thread is idle or blocked in fetch_screener with the ticker and
\* the clock value it read; res is the response returned last.

Response(raw, now, source, data) ==
    [raw |-> raw, now |-> now, source |-> source, data |-> data]

IdleWorker == [pc |-> "idle", raw |-> "", ticker |-> "", now |-> 0]

\* lines 153-166: a worker takes a request, reads the clock and looks the
\* upper-cased ticker up; a valid entry is answered from the cache,
\* otherwise the worker goes on to fetch_screener, where it blocks and other
\* workers run.
Begin(t, raw) ==
    LET ticker == Upper(raw)
        now == clock
    IN  /\ reqs[t].pc = "idle"
        /\ IF CacheValid(financials_cache, ticker, now)
           THEN /\ res' = Response(raw, now, "cache",
                                   DictGet(financials_cache, ticker, <<>>).data)
                /\ reqs' = reqs
           ELSE /\ reqs' = [reqs EXCEPT ![t] =
                      [pc |-> "fetching", raw |-> raw, ticker |-> ticker, now |-> now]]
                /\ res' = res
        /\ UNCHANGED <<pc, arg, financials_cache, clock>>

\* lines 166-188: fetch_screener returned the page
FetchOk(t, soup) ==
    LET r == reqs[t]
        data == Financials(soup)
    IN  /\ r.pc = "fetching"
        /\ financials_cache' =
              DictSet(financials_cache, r.ticker, [timestamp |-> r.now, data |-> data])
        /\ res' = Response(r.raw, r.now, "live", data)
        /\ reqs' = [reqs EXCEPT ![t] = IdleWorker]
        /\ UNCHANGED <<pc, arg, clock>>

\* lines 41-42, 166: requests.get or raise_for_status raised; the exception
\* leaves get_financials
FetchFail(t) ==
    LET r == reqs[t]
    IN  /\ r.pc = "fetching"
        /\ res' = Response(r.raw, r.now, "error", NoData)
        /\ reqs' = [reqs EXCEPT ![t] = IdleWorker]
        /\ UNCHANGED <<pc, arg, financials_cache, clock>>

-----------------------------------------------------------------------------
(* Specification SpecCache: concurrent get_financials requests *)

NumWorkers == 2

MaxTicks == 2

TimeStep == CACHE_TTL \div 2

Workers == 1..NumWorkers

Tickers == {"tcs", "TCS", "infy"}

PageRows(period, value) ==
    << <<[tag |-> "th", text |-> <<>>], [tag |-> "th", text |-> period]>>,
       <<[tag |-> "td", text |-> <<"Sales +">>], [tag |-> "td", text |-> value]>> >>

\* what the site serves: two versions of the company page
Pages ==
    {SoupOf([kind |-> "table", rows |-> PageRows(<<" ", "Mar 2023", " ">>, NumText)]),
     SoupOf([kind |-> "table", rows |-> PageRows(<<"TTM">>, BadText)])}

\* time.time() moves on
Tick ==
    /\ clock + TimeStep <= MaxTicks * TimeStep
    /\ clock' = clock + TimeStep
    /\ UNCHANGED <<pc, arg, res, financials_cache, reqs>>

InitCache ==
    /\ pc = "serving"
    /\ arg = <<>>
    /\ res = Response("", 0, "none", NoData)
    /\ financials_cache = <<>>
    /\ clock = 0
    /\ reqs = [t \in Workers |-> IdleWorker]

NextCache ==
    \/ Tick
    \/ \E t \in Workers, raw \in Tickers : Begin(t, raw)
    \/ \E t \in Workers, soup \in Pages : FetchOk(t, soup)
    \/ \E t \in Workers : FetchFail(t)

SpecCache == InitCache /\ [][NextCache]_vars

ExpectedUpper(raw) == IF raw \in {"tcs", "TCS"} THEN "TCS" ELSE "INFY"

\* the entry stored under key, if any
Entries(cache, key) == {cache[i][2] : i \in {j \in 1..Len(cache) : cache[j][1] = key}}

FreshEntries(cache, key, now) ==
    {e \in Entries(cache, key) : now - e.timestamp < CACHE_TTL}

\* worker t leaves fetch_screener in this step
Returns(t) == reqs[t].pc = "fetching" /\ reqs'[t].pc = "idle"

C10_Step ==
    /\ \A t \in Workers :
          \* a request goes on to fetch only without an entry younger than
          \* CACHE_TTL at the request's time, and remembers that time
          /\ (reqs[t].pc = "idle" /\ reqs'[t].pc = "fetching") =>
                /\ reqs'[t].now = clock
                /\ FreshEntries(financials_cache, ExpectedUpper(reqs'[t].raw), clock) = {}
                /\ financials_cache' = financials_cache
          \* a fetch that succeeds answers "live" and overwrites the entry
          \* with the new data and the request's timestamp; a fetch that
          \* fails leaves the cache unchanged
          /\ Returns(t) =>
                /\ res'.raw = reqs[t].raw /\ res'.now = reqs[t].now
                /\ res'.source \in {"live", "error"}
                /\ res'.source = "live" =>
                      /\ Entries(financials_cache', ExpectedUpper(res'.raw))
                            = {[timestamp |-> res'.now, data |-> res'.data]}
                      /\ \A k \in {"TCS", "INFY"} \ {ExpectedUpper(res'.raw)} :
                            Entries(financials_cache', k) = Entries(financials_cache, k)
                /\ res'.source = "error" => financials_cache' = financials_cache
    \* a response labelled "cache" carries the data of the entry of the
    \* upper-cased ticker, stamped less than CACHE_TTL before the request
    /\ (res' # res /\ \A t \in Workers : ~Returns(t)) =>
          /\ res'.source = "cache"
          /\ res'.now = clock
          /\ \E e \in FreshEntries(financials_cache, ExpectedUpper(res'.raw), clock) :
                res'.data = e.data
          /\ financials_cache' = financials_cache
    \* entries are stored by successful live fetches only
    /\ financials_cache' # financials_cache =>
          \E t \in Workers : Returns(t) /\ res'.source = "live"

\* C10: in every interleaving of get_financials requests, a response
\* labelled "cache" carries exactly the data stored by an earlier live fetch
\* of the same upper-cased ticker whose timestamp is less than CACHE_TTL
\* before the request's time; a request with no entry or an entry at least
\* CACHE_TTL old fetches, answers "live" and overwrites the entry with the
\* new data and timestamp; a fetch that fails leaves the cache unchanged.
C10_Cache == [][C10_Step]_vars

\* "TCS" answered from the cache half a TTL after the entry was stored,
\* while another ticker holds other data
C10_Witness ==
    /\ pc = "serving"
    /\ res.source = "cache"
    /\ res.raw = "TCS"
    /\ res.now = TimeStep
    /\ Entries(financials_cache, "TCS") = {[timestamp |-> 0, data |-> res.data]}
    /\ \E e \in Entries(financials_cache, "INFY") : e.data # res.data

=============================================================================
